---- MODULE Spec2Model ----
(***************************************************************************)
(* kiss-ntpd: the NTP packet codec, the request classifier, the response   *)
(* synthesizer and the listener loop of src/main.rs, as a state machine.   *)
(*                                                                         *)
(* Numbers wider than 31 bits are kept as big-endian tuples of 16-bit      *)
(* limbs (a u64 is <<l3, l2, l1, l0>>, a u32 is <<l1, l0>>), so that the   *)
(* width of every integer of the program is kept and the byte conversions  *)
(* (from_be_bytes, to_be_bytes, as i8, as u8, shifts and masks) are        *)
(* computed rather than assumed.                                           *)
(***************************************************************************)
EXTENDS Integers, Sequences, FiniteSets, TLC

VARIABLES pc, clock, dgram, request, ref_now, response, sent, log,
          raw_args, env, opts, socket, stdout, inq, earlier

\* the state of main: the arguments and the environment of the process, the
\* options main resolves from them, the result of UdpSocket::bind and the
\* lines main and process_requests print before the loop
startup == <<raw_args, env, opts, socket, stdout>>

vars == <<pc, clock, dgram, request, ref_now, response, sent, log, startup, inq, earlier>>

(***************************************************************************)
(* Bounds of the model and constants of the program.                       *)
(***************************************************************************)
\* longest datagram the network delivers in the model
MaxLen == 50
\* number of header fill patterns the datagrams are built from
NPatterns == 4

\* main.rs:111  let mut buf = [0; 1024]
BufSize == 1024
\* main.rs:117  if len < 48 ; main.rs:150  let mut buf = [0; 48]
PacketLen == 48
\* main.rs:168  self.remote_addr.port() != 123
NtpPort == 123
\* main.rs:182  stratum: 8
ServerStratum == 8

Limb == 65536

Min(a, b) == IF a < b THEN a ELSE b

(***************************************************************************)
(* Option and Result values.                                               *)
(***************************************************************************)
None == [tag |-> "None"]
Some(x) == [tag |-> "Some", val |-> x]
Ok(x) == [tag |-> "Ok", val |-> x]
Err(e) == [tag |-> "Err", val |-> e]

\* main.rs:118
TooShort == [kind |-> "UnexpectedEof", msg |-> "Packet too short"]
\* main.rs:126
UnsupportedVersion == [kind |-> "Other", msg |-> "Unsupported version"]
\* errors the operating system reports from recv_from and send_to
OsErrors == {[kind |-> "Interrupted", msg |-> "os error"],
             [kind |-> "ConnectionRefused", msg |-> "os error"]}

(***************************************************************************)
(* Bit operations on u8 values.                                            *)
(***************************************************************************)
Shr(x, n) == x \div (2 ^ n)
ShlU8(x, n) == (x * (2 ^ n)) % 256

\* bit k of x
Bit(x, k) == (x \div (2 ^ k)) % 2

Or1(p, q) == IF p = 1 \/ q = 1 THEN 1 ELSE 0

\* a | b on u8 values
BitOr(a, b) ==
    Or1(Bit(a, 0), Bit(b, 0)) + 2 * Or1(Bit(a, 1), Bit(b, 1))
    + 4 * Or1(Bit(a, 2), Bit(b, 2)) + 8 * Or1(Bit(a, 3), Bit(b, 3))
    + 16 * Or1(Bit(a, 4), Bit(b, 4)) + 32 * Or1(Bit(a, 5), Bit(b, 5))
    + 64 * Or1(Bit(a, 6), Bit(b, 6)) + 128 * Or1(Bit(a, 7), Bit(b, 7))

\* a & b on u8 values
BitAnd(a, b) ==
    Bit(a, 0) * Bit(b, 0) + 2 * Bit(a, 1) * Bit(b, 1)
    + 4 * Bit(a, 2) * Bit(b, 2) + 8 * Bit(a, 3) * Bit(b, 3)
    + 16 * Bit(a, 4) * Bit(b, 4) + 32 * Bit(a, 5) * Bit(b, 5)
    + 64 * Bit(a, 6) * Bit(b, 6) + 128 * Bit(a, 7) * Bit(b, 7)

\* buf[2] as i8
AsI8(b) == IF b >= 128 THEN b - 256 ELSE b
\* the absolute value instead of the two's complement byte
AsU8_abs(i) == IF i < 0 THEN 0 - i ELSE i

\* self.poll as u8
AsU8(i) == IF i < 0 THEN i + 256 ELSE i

\* a slice that starts and ends one byte late
Slice_late(buf, a, b) == [k \in 1..(b - a) |-> buf[a + k]]

\* buf[a..b] of a 0-based buffer, as a sequence of b - a bytes
Slice(buf, a, b) == [k \in 1..(b - a) |-> buf[a + k - 1]]

(***************************************************************************)
(* u64 and u32 big-endian conversions.                                     *)
(***************************************************************************)
u64_from_be_bytes(b) ==
    <<b[1] * 256 + b[2], b[3] * 256 + b[4], b[5] * 256 + b[6], b[7] * 256 + b[8]>>

\* to_le_bytes instead of to_be_bytes
u64_to_le_bytes(v) ==
    <<v[4] % 256, v[4] \div 256, v[3] % 256, v[3] \div 256,
      v[2] % 256, v[2] \div 256, v[1] % 256, v[1] \div 256>>

u64_to_be_bytes(v) ==
    <<v[1] \div 256, v[1] % 256, v[2] \div 256, v[2] % 256,
      v[3] \div 256, v[3] % 256, v[4] \div 256, v[4] % 256>>

\* from_le_bytes instead of from_be_bytes
u32_from_le_bytes(b) == <<b[4] * 256 + b[3], b[2] * 256 + b[1]>>

u32_from_be_bytes(b) == <<b[1] * 256 + b[2], b[3] * 256 + b[4]>>

u32_to_be_bytes(v) == <<v[1] \div 256, v[1] % 256, v[2] \div 256, v[2] % 256>>

U64Zero == <<0, 0, 0, 0>>
U32Zero == <<0, 0>>

(***************************************************************************)
(* NtpTimestamp.                                                           *)
(***************************************************************************)
\* 2208988800 = 0x83AA7E80, the seconds between the 1900 and 1970 epochs
EpochOffset == <<0, 0, 33706, 32384>>

\* a + b on u64 values, wrapping
AddU64(a, b) ==
    LET s0 == a[4] + b[4]
        s1 == a[3] + b[3] + s0 \div Limb
        s2 == a[2] + b[2] + s1 \div Limb
        s3 == a[1] + b[1] + s2 \div Limb
    IN  <<s3 % Limb, s2 % Limb, s1 % Limb, s0 % Limb>>

\* a << 32 on a u64 value: the high 32 bits are shifted out
Shl32(a) == <<a[3], a[4], 0, 0>>

\* the double 4.294967296 is F64Factor * 2^-50: the 53-bit mantissa
\* 4835703278458517 (0x1.12e0be826d695p+2), as big-endian 15-bit limbs
F64Factor == <<137, 14383, 20557, 22165>>

\* nanos as f64 * 4.294967296 before rounding: the exact product
\* nanos * F64Factor, six little-endian 15-bit limbs, in units of 2^-50
F64Product(nanos) ==
    LET n0 == nanos % 32768
        n1 == nanos \div 32768
        c0 == n0 * F64Factor[4]
        c1 == n0 * F64Factor[3] + n1 * F64Factor[4] + c0 \div 32768
        c2 == n0 * F64Factor[2] + n1 * F64Factor[3] + c1 \div 32768
        c3 == n0 * F64Factor[1] + n1 * F64Factor[2] + c2 \div 32768
        c4 == n1 * F64Factor[1] + c3 \div 32768
    IN  <<c0 % 32768, c1 % 32768, c2 % 32768, c3 % 32768, c4 % 32768, c4 \div 32768>>

\* the number of bits of x, for 0 <= x < 2^16
BitLen(x) == CHOOSE b \in 0..16 : x < 2 ^ b /\ (b = 0 \/ x >= 2 ^ (b - 1))

\* the product rounded to a double (53 bits, ties to even) and truncated by
\* 'as u64': the integer part of the product, plus one when the rounding
\* of the k dropped bits carries into it
F64ToU64(p) ==
    LET lo == p[4] \div 32 + (p[5] % 64) * 1024
        hi == p[5] \div 64 + p[6] * 512
        bits == IF hi > 0 THEN 16 + BitLen(hi) ELSE BitLen(lo)
        k == bits - 3
        up == /\ k >= 1
              /\ p[4] % 32 = 31
              /\ p[3] = 32767
              /\ p[2] * 32768 + p[1] >= 2 ^ 30 - 2 ^ (k - 1)
        lo1 == lo + (IF up THEN 1 ELSE 0)
    IN  <<0, (hi + lo1 \div Limb) \div Limb, (hi + lo1 \div Limb) % Limb, lo1 % Limb>>

\* the fraction written as nanos * 4 by mistake
FracOfNanos_times4(nanos) == <<0, 0, nanos \div 16384, (nanos % 16384) * 4>>

\* (nanos as f64 * 4.294967296) as u64
FracOfNanos(nanos) == F64ToU64(F64Product(nanos))

\* NtpTimestamp::now for a wall clock reading dur = [secs, nanos] since 1970
\* (duration_since(UNIX_EPOCH).unwrap(): the clock never reads before 1970)
NtpTimestamp_now(dur) ==
    LET secs == AddU64(dur.secs, EpochOffset)
    IN  [ts |-> AddU64(Shl32(secs), FracOfNanos(dur.nanos))]

NtpTimestamp_zero == [ts |-> U64Zero]

NtpTimestamp_read(buf) == [ts |-> u64_from_be_bytes(buf)]

NtpTimestamp_write(self) == u64_to_be_bytes(self.ts)

(***************************************************************************)
(* NtpFracValue.                                                           *)
(***************************************************************************)
NtpFracValue_read(buf) == [val |-> u32_from_be_bytes(buf)]

NtpFracValue_write(self) == u32_to_be_bytes(self.val)

NtpFracValue_zero == [val |-> U32Zero]

(***************************************************************************)
(* NtpPacket.                                                              *)
(***************************************************************************)
\* an off-by-one length check
too_short_off_by_one(len) == len < PacketLen - 1

\* main.rs:117  len < 48
too_short(len) == len < PacketLen

\* a version check that stops at NTPv3
unsupported_version_above_3(version) == version < 1 \/ version > 3

\* main.rs:125  version < 1 || version > 4
unsupported_version(version) == version < 1 \/ version > 4

\* NtpPacket::receive after recv_from returned rf; dur is the wall clock
\* reading NtpTimestamp::now() takes right after recv_from
receive(rf, dur) ==
    IF rf.tag = "Err" THEN rf
    ELSE
    LET len == rf.val.len
        addr == rf.val.addr
        buf == rf.val.buf
        local_ts == NtpTimestamp_now(dur)
        leap == Shr(buf[0], 6)
        version == BitAnd(Shr(buf[0], 3), 7)
        mode == BitAnd(buf[0], 7)
    IN  IF too_short(len) THEN Err(TooShort)
        ELSE IF unsupported_version(version) THEN Err(UnsupportedVersion)
        ELSE Ok([remote_addr |-> addr,
                 local_ts |-> local_ts,
                 leap |-> leap,
                 version |-> version,
                 mode |-> mode,
                 stratum |-> buf[1],
                 poll |-> AsI8(buf[2]),
                 precision |-> AsI8(buf[3]),
                 delay |-> NtpFracValue_read(Slice(buf, 4, 8)),
                 dispersion |-> NtpFracValue_read(Slice(buf, 8, 12)),
                 ref_id |-> u32_from_be_bytes(Slice(buf, 12, 16)),
                 ref_ts |-> NtpTimestamp_read(Slice(buf, 16, 24)),
                 orig_ts |-> NtpTimestamp_read(Slice(buf, 24, 32)),
                 rx_ts |-> NtpTimestamp_read(Slice(buf, 32, 40)),
                 tx_ts |-> NtpTimestamp_read(Slice(buf, 40, 48))])

\* NtpPacket::send: the 48 bytes handed to send_to
send(self) ==
    << BitOr(BitOr(ShlU8(self.leap, 6), ShlU8(self.version, 3)), self.mode),
       self.stratum,
       AsU8(self.poll),
       AsU8(self.precision) >>
    \o NtpFracValue_write(self.delay)
    \o NtpFracValue_write(self.dispersion)
    \o u32_to_be_bytes(self.ref_id)
    \o NtpTimestamp_write(self.ref_ts)
    \o NtpTimestamp_write(self.orig_ts)
    \o NtpTimestamp_write(self.rx_ts)
    \o NtpTimestamp_write(self.tx_ts)

\* the NTPv1 heuristic without its source port test
is_request_any_port(self) ==
    \/ self.mode = 1
    \/ self.mode = 3
    \/ (self.mode = 0 /\ self.version = 1)

is_request(self) ==
    \/ self.mode = 1
    \/ self.mode = 3
    \/ (self.mode = 0 /\ self.version = 1 /\ self.remote_addr.port # NtpPort)

\* a reply to the NTP port of the source host instead of its source port
response_remote_addr_ntp_port(self) == [self.remote_addr EXCEPT !.port = NtpPort]

\* main.rs:177  remote_addr: self.remote_addr
response_remote_addr(self) == self.remote_addr

\* the mode of the request echoed
response_mode_echo(self) == self.mode

\* every reply sent as a server reply
response_mode_server(self) == 4

\* main.rs:181  mode: if self.mode == 1 { 2 } else { 4 }
response_mode(self) == IF self.mode = 1 THEN 2 ELSE 4

\* the stratum of the request echoed
response_stratum_echo(self) == self.stratum

\* main.rs:182  stratum: 8
response_stratum(self) == ServerStratum

\* the clock reading taken for tx_ts instead of the receipt timestamp
response_rx_ts_at_send(self, now1, now2) == now2

\* a fresh clock reading instead of the receipt timestamp
response_rx_ts_fresh(self, now1, now2) == now1

\* main.rs:190  rx_ts: self.local_ts
response_rx_ts(self, now1, now2) == self.local_ts

\* NtpPacket::make_response; now1 and now2 are the results of the two
\* NtpTimestamp::now() calls, in the order the struct expression makes them
make_response(self, now1, now2) ==
    IF ~is_request(self) THEN None
    ELSE Some([remote_addr |-> response_remote_addr(self),
               local_ts |-> NtpTimestamp_zero,
               leap |-> 0,
               version |-> self.version,
               mode |-> response_mode(self),
               stratum |-> response_stratum(self),
               poll |-> self.poll,
               precision |-> 0,
               delay |-> NtpFracValue_zero,
               dispersion |-> NtpFracValue_zero,
               ref_id |-> U32Zero,
               ref_ts |-> now1,
               orig_ts |-> self.tx_ts,
               rx_ts |-> response_rx_ts(self, now1, now2),
               tx_ts |-> now2])

(***************************************************************************)
(* Args, arg_to_env and env_for_arg.  Strings are sequences of characters. *)
(***************************************************************************)
Lower == <<"a", "b", "c", "d", "e", "f", "g", "h", "i", "j", "k", "l", "m",
           "n", "o", "p", "q", "r", "s", "t", "u", "v", "w", "x", "y", "z">>
Upper == <<"A", "B", "C", "D", "E", "F", "G", "H", "I", "J", "K", "L", "M",
           "N", "O", "P", "Q", "R", "S", "T", "U", "V", "W", "X", "Y", "Z">>

\* make_ascii_uppercase
to_ascii_uppercase(str) ==
    [i \in 1..Len(str) |->
        IF \E k \in 1..26 : Lower[k] = str[i]
        THEN Upper[CHOOSE k \in 1..26 : Lower[k] = str[i]]
        ELSE str[i]]

\* str.replace(from, to) for single characters
replace(str, from, to) == [i \in 1..Len(str) |-> IF str[i] = from THEN to ELSE str[i]]

\* str.trim_matches(c): c removed from both ends
trim_matches(str, c) ==
    IF \A i \in 1..Len(str) : str[i] = c THEN <<>>
    ELSE LET first == CHOOSE i \in 1..Len(str) :
                          str[i] # c /\ \A j \in 1..(i - 1) : str[j] = c
             last == CHOOSE i \in 1..Len(str) :
                          str[i] # c /\ \A j \in (i + 1)..Len(str) : str[j] = c
         IN  SubSeq(str, first, last)

starts_with(str, prefix) ==
    Len(str) >= Len(prefix) /\ SubSeq(str, 1, Len(prefix)) = prefix

\* "KISS_NTPD_"
EnvPrefix == <<"K", "I", "S", "S", "_", "N", "T", "P", "D", "_">>

\* arg_to_env: --some-flag gives KISS_NTPD_SOME_FLAG, anything else None
arg_to_env(arg) ==
    IF ~starts_with(arg, <<"-", "-">>) THEN None
    ELSE Some(to_ascii_uppercase(EnvPrefix \o replace(trim_matches(arg, "-"), "-", "_")))

\* std::env::var(key).ok() in the environment e
env_var(e, key) == IF key \in DOMAIN e THEN e[key] ELSE None

\* env_for_arg
env_for_arg(e, arg) ==
    IF arg_to_env(arg).tag = "None" THEN None ELSE env_var(e, arg_to_env(arg).val)

\* Args::flag
Args_flag(args, e, flag) ==
    IF \E i \in 1..Len(args) : args[i] = flag THEN TRUE
    ELSE IF env_for_arg(e, flag).tag = "Some"
         THEN /\ env_for_arg(e, flag).val # <<>>
              /\ env_for_arg(e, flag).val # <<"0">>
              /\ env_for_arg(e, flag).val # <<"f", "a", "l", "s", "e">>
         ELSE FALSE

\* the inner loop of Args::get_option for one flag, from argument i on
RECURSIVE ScanArgs(_, _, _, _)
ScanArgs(args, flag, i, found) ==
    IF i > Len(args) THEN None
    ELSE IF found THEN Some(args[i])
    ELSE ScanArgs(args, flag, i + 1, args[i] = flag)

\* the first loop of Args::get_option, from flag k on
RECURSIVE ScanFlags(_, _, _)
ScanFlags(args, flags, k) ==
    IF k > Len(flags) THEN None
    ELSE IF ScanArgs(args, flags[k], 1, FALSE).tag = "Some"
         THEN ScanArgs(args, flags[k], 1, FALSE)
         ELSE ScanFlags(args, flags, k + 1)

\* the second loop of Args::get_option: the environment as a fallback
RECURSIVE ScanEnv(_, _, _)
ScanEnv(e, flags, k) ==
    IF k > Len(flags) THEN None
    ELSE IF env_for_arg(e, flags[k]).tag = "Some" THEN env_for_arg(e, flags[k])
    ELSE ScanEnv(e, flags, k + 1)

\* Args::get_option
Args_get_option(args, e, flags) ==
    IF ScanFlags(args, flags, 1).tag = "Some" THEN ScanFlags(args, flags, 1)
    ELSE ScanEnv(e, flags, 1)

\* Args::get_str
Args_get_str(args, e, flags, def) ==
    IF Args_get_option(args, e, flags).tag = "Some"
    THEN Args_get_option(args, e, flags).val
    ELSE def

(***************************************************************************)
(* main.                                                                   *)
(***************************************************************************)
Flag_V == <<"-", "V">>
Flag_v == <<"-", "v">>
Flag_version == <<"-", "-", "v", "e", "r", "s", "i", "o", "n">>
Flag_h == <<"-", "h">>
Flag_help == <<"-", "-", "h", "e", "l", "p">>
Flag_b == <<"-", "b">>
Flag_bind == <<"-", "-", "b", "i", "n", "d">>
Flag_d == <<"-", "d">>
Flag_debug == <<"-", "-", "d", "e", "b", "u", "g">>

\* "0.0.0.0:123"
default_udp_host == <<"0", ".", "0", ".", "0", ".", "0", ":", "1", "2", "3">>

\* main.rs:317
main_version(args, e) ==
    Args_flag(args, e, Flag_V) \/ Args_flag(args, e, Flag_v) \/ Args_flag(args, e, Flag_version)

\* main.rs:324
main_bind(args, e) == Args_get_str(args, e, <<Flag_b, Flag_bind>>, default_udp_host)

\* only the long form of the help flag
main_help_long_only(args, e) == Args_flag(args, e, Flag_help)

\* main.rs:326
main_help(args, e) == Args_flag(args, e, Flag_h) \/ Args_flag(args, e, Flag_help)

\* main.rs:343
main_debug(args, e) == Args_flag(args, e, Flag_d) \/ Args_flag(args, e, Flag_debug)

\* what main resolves from the arguments and the environment
main_options(args, e) ==
    [version |-> main_version(args, e),
     bind |-> main_bind(args, e),
     help |-> main_help(args, e),
     debug |-> main_debug(args, e)]

(***************************************************************************)
(* The environment: datagrams, source addresses and wall clock readings.   *)
(***************************************************************************)
\* byte i (0-based, i >= 1) of the datagram pattern p
Fill(p, i) ==
    IF p = 0 THEN 0
    ELSE IF p = 1 THEN (5 * i + 3) % 256
    ELSE IF p = 2 THEN 255
    ELSE (128 + p * i - 2 * p) % 256

\* a datagram of len bytes: byte 0 holds leap, version and mode
Datagram(p, v, m, len) ==
    [i \in 1..len |-> IF i = 1 THEN (p % 4) * 64 + v * 8 + m ELSE Fill(p, i - 1)]

Lens == {0, 1, PacketLen - 1, PacketLen, MaxLen}

Datagrams ==
    {Datagram(p, v, m, len) : p \in 0..(NPatterns - 1), v \in 0..7, m \in 0..7, len \in Lens}

Addrs == {[ip |-> 1, port |-> NtpPort], [ip |-> 1, port |-> 4000], [ip |-> 2, port |-> NtpPort]}

\* the last second of NTP era 0 (2036-02-07 06:28:15 UTC) and the first of era 1
ClockSecs == {<<0, 0, 31829, 33151>>, <<0, 0, 31829, 33152>>}
ClockNanos == {0, 999999999}
Readings == [secs : ClockSecs, nanos : ClockNanos]

LessU64(a, b) ==
    \/ a[1] < b[1]
    \/ a[1] = b[1] /\ a[2] < b[2]
    \/ a[1] = b[1] /\ a[2] = b[2] /\ a[3] < b[3]
    \/ a[1] = b[1] /\ a[2] = b[2] /\ a[3] = b[3] /\ a[4] < b[4]

Earlier(r1, r2) ==
    \/ LessU64(r1.secs, r2.secs)
    \/ r1.secs = r2.secs /\ r1.nanos < r2.nanos

\* socket.recv_from(&mut buf) for a datagram d from addr: buf starts as
\* [0; 1024] and receives at most 1024 bytes of d
recv_from(d, addr) ==
    LET len == Min(Len(d), BufSize)
    IN  Ok([len |-> len, addr |-> addr,
            buf |-> [i \in 0..(BufSize - 1) |-> IF i < len THEN d[i + 1] ELSE 0]])

(***************************************************************************)
(* NtpServer::process_requests: the listener loop.                         *)
(*   pc = "recv"           blocked in recv_from                            *)
(*   pc = "make_response"  receive returned Ok(request)                    *)
(*   pc = "tx_ts"          ref_ts is read, tx_ts is not yet                *)
(*   pc = "send"           make_response returned Some(response)           *)
(*   pc = "loop"           the end of the loop body                        *)
(* dgram, sent and log record what the iteration in progress received,     *)
(* handed to send_to with success, and printed as a failure; the debug     *)
(* flag adds the println! of the packets and changes nothing else.         *)
(***************************************************************************)
LoopPcs == {"recv", "make_response", "tx_ts", "send", "loop"}

\* where the loop continues after the Err(e) arm of match NtpPacket::receive
after_receive_err == "loop"
\* where the loop continues after the None arm of match make_response
after_none == "loop"
\* where the loop continues after the Ok(_) arm of match response.send
after_send_ok == "loop"
\* a send error that leaves the loop
after_send_err_exit == "exit"

\* where the loop continues after the Err(e) arm of match response.send
after_send_err == "loop"

\* argv[0]
Program == <<"k", "i", "s", "s", "-", "n", "t", "p", "d">>

\* an environment without any KISS_NTPD_ variable
NoEnv == [key \in {} |-> None]

\* main started without arguments has bound 0.0.0.0:123 and called run
Started ==
    /\ raw_args = <<Program>>
    /\ env = NoEnv
    /\ opts = main_options(<<Program>>, NoEnv)
    /\ socket = Ok(default_udp_host)
    /\ stdout = <<"Server thread started">>

Init ==
    /\ pc = "recv"
    /\ clock \in Readings
    /\ dgram = None
    /\ request = None
    /\ ref_now = None
    /\ response = None
    /\ sent = <<>>
    /\ log = <<>>
    /\ Started
    /\ inq = <<>>
    /\ earlier = <<>>

\* match NtpPacket::receive(&socket), with recv_from returning the
\* datagram d from addr
ReceiveDatagram(d, addr) ==
    /\ pc = "recv"
    /\ LET r == receive(recv_from(d, addr), clock)
       IN  /\ dgram' = Some([data |-> d, addr |-> addr, at |-> clock])
           /\ request' = r
           /\ IF r.tag = "Ok"
                THEN pc' = "make_response" /\ log' = log
                ELSE /\ pc' = after_receive_err
                     /\ log' = Append(log, [line |-> "failed to receive packet", err |-> r.val])
    /\ UNCHANGED <<clock, ref_now, response, sent, startup, earlier>>

\* recv_from returns any datagram of D from any source
ReceiveOf(D) ==
    /\ \E d \in D, addr \in Addrs : ReceiveDatagram(d, addr)
    /\ UNCHANGED inq

Receive == ReceiveOf(Datagrams)

\* match NtpPacket::receive(&socket), with recv_from returning the error e
ReceiveFailed(e) ==
    /\ pc = "recv"
    /\ LET r == receive(Err(e), clock)
       IN  /\ request' = r
           /\ pc' = after_receive_err
           /\ log' = Append(log, [line |-> "failed to receive packet", err |-> r.val])
    /\ UNCHANGED <<clock, dgram, ref_now, response, sent, startup, earlier>>

\* recv_from returns any error
ReceiveError ==
    /\ \E e \in OsErrors : ReceiveFailed(e)
    /\ UNCHANGED inq

\* make_response on a packet that is not a request: the None arm
NotRequest ==
    /\ pc = "make_response"
    /\ ~is_request(request.val)
    /\ response' = make_response(request.val, None, None)
    /\ pc' = after_none
    /\ UNCHANGED <<clock, dgram, request, ref_now, sent, log, startup, inq, earlier>>

\* make_response on a request: ref_ts: NtpTimestamp::now()
ReadRefTs ==
    /\ pc = "make_response"
    /\ is_request(request.val)
    /\ ref_now' = Some(NtpTimestamp_now(clock))
    /\ pc' = "tx_ts"
    /\ UNCHANGED <<clock, dgram, request, response, sent, log, startup, inq, earlier>>

\* make_response on a request: tx_ts: NtpTimestamp::now(), Some(response)
MakeResponse ==
    /\ pc = "tx_ts"
    /\ response' = make_response(request.val, ref_now.val, NtpTimestamp_now(clock))
    /\ pc' = "send"
    /\ UNCHANGED <<clock, dgram, request, ref_now, sent, log, startup, inq, earlier>>

\* response.send(&socket) returns Ok
SendOk ==
    /\ pc = "send"
    /\ sent' = Append(sent, [to |-> response.val.remote_addr, data |-> send(response.val)])
    /\ pc' = after_send_ok
    /\ UNCHANGED <<clock, dgram, request, ref_now, response, log, startup, inq, earlier>>

\* response.send(&socket) returns Err: send_to put nothing on the wire
SendError ==
    /\ pc = "send"
    /\ \E e \in OsErrors :
         log' = Append(log, [line |-> "failed to send packet", err |-> e])
    /\ pc' = after_send_err
    /\ UNCHANGED <<clock, dgram, request, ref_now, response, sent, startup, inq, earlier>>

\* a response that is declared outside the loop and kept
LoopTo_keeps_response(e) ==
    /\ pc = "loop"
    /\ pc' = "recv"
    /\ dgram' = None
    /\ request' = None
    /\ ref_now' = None
    /\ sent' = <<>>
    /\ log' = <<>>
    /\ earlier' = e
    /\ UNCHANGED <<clock, response, startup, inq>>

\* the back edge of loop { }: request and response go out of scope; e is
\* the record of the iterations that have ended
LoopTo(e) ==
    /\ pc = "loop"
    /\ pc' = "recv"
    /\ dgram' = None
    /\ request' = None
    /\ ref_now' = None
    /\ response' = None
    /\ sent' = <<>>
    /\ log' = <<>>
    /\ earlier' = e
    /\ UNCHANGED <<clock, startup, inq>>

\* the back edge, with no record kept
Loop == LoopTo(earlier)

\* the wall clock advances; it is observed only by NtpTimestamp::now(), so
\* it moves only where a read follows
ReadsClockNext == pc \in {"recv", "make_response", "tx_ts"}

Tick ==
    /\ ReadsClockNext
    /\ \E r \in Readings : Earlier(clock, r) /\ clock' = r
    /\ UNCHANGED <<pc, dgram, request, ref_now, response, sent, log, startup, inq, earlier>>

\* the wall clock is set back
StepBack ==
    /\ ReadsClockNext
    /\ \E r \in Readings : Earlier(r, clock) /\ clock' = r
    /\ UNCHANGED <<pc, dgram, request, ref_now, response, sent, log, startup, inq, earlier>>

Next ==
    \/ Receive
    \/ ReceiveError
    \/ NotRequest
    \/ ReadRefTs
    \/ MakeResponse
    \/ SendOk
    \/ SendError
    \/ Loop
    \/ Tick
    \/ StepBack

Spec == Init /\ [][Next]_vars

\* the datagrams of the specification with fairness: too short, of an
\* unsupported version, not a request, and a request
FewDatagrams ==
    {Datagram(1, v, m, len) : v \in {4, 5}, m \in {3, 4}, len \in {PacketLen - 1, PacketLen}}

ReceiveFew == ReceiveOf(FewDatagrams)

FairNext ==
    \/ ReceiveFew
    \/ ReceiveError
    \/ NotRequest
    \/ ReadRefTs
    \/ MakeResponse
    \/ SendOk
    \/ SendError
    \/ Loop
    \/ Tick
    \/ StepBack

\* the loop body runs to its end: nothing but recv_from blocks
FairSpec ==
    /\ Init
    /\ [][FairNext]_vars
    /\ WF_vars(NotRequest)
    /\ WF_vars(ReadRefTs)
    /\ WF_vars(MakeResponse)
    /\ WF_vars(SendOk \/ SendError)
    /\ WF_vars(Loop)

\* the loop under a wall clock that is never set back
MonoNext ==
    \/ ReceiveFew
    \/ ReceiveError
    \/ NotRequest
    \/ ReadRefTs
    \/ MakeResponse
    \/ SendOk
    \/ SendError
    \/ Loop
    \/ Tick

MonoSpec == Init /\ [][MonoNext]_vars

(***************************************************************************)
(* NtpTimestamp::now on its own: one clock reading converted.              *)
(***************************************************************************)
\* 1970, 2023, the two seconds around the end of NTP era 0, the last second
\* that fits 32 bits and a second beyond 32 bits
NowSecs ==
    {<<0, 0, 0, 0>>, <<0, 0, 25939, 61696>>, <<0, 0, 31829, 33151>>,
     <<0, 0, 31829, 33152>>, <<0, 0, 65535, 65535>>, <<0, 1, 0, 5>>}

\* subsec_nanos(): below 10^9
NanosPerSec == 10 ^ 9

\* the nanoseconds at which nanos * 2^32 / 10^9 is a whole number (the
\* multiples of 5^9), their neighbours, and the largest value
NowNanos ==
    {n \in {k * (5 ^ 9) + d : k \in 0..511, d \in {0 - 1, 0, 1}} : n >= 0 /\ n < NanosPerSec}
    \cup {NanosPerSec - 1}

NowReadings == [secs : NowSecs, nanos : NowNanos]

NowInit ==
    /\ pc = "now"
    /\ clock \in NowReadings
    /\ dgram = None
    /\ request = None
    /\ ref_now = None
    /\ response = None
    /\ sent = <<>>
    /\ log = <<>>
    /\ Started
    /\ inq = <<>>
    /\ earlier = <<>>

\* one call of NtpTimestamp::now()
ReadNow ==
    /\ pc = "now"
    /\ ref_now' = Some(NtpTimestamp_now(clock))
    /\ pc' = "now_done"
    /\ UNCHANGED <<clock, dgram, request, response, sent, log, startup, inq, earlier>>

NowSpec == NowInit /\ [][ReadNow]_vars

(***************************************************************************)
(* The datagrams as they are on the wire, read without the codec.          *)
(***************************************************************************)
\* bytes a..b-1 (0-based) of a datagram
WireBytes(d, a, b) == SubSeq(d, a + 1, b)
WireLeap(d) == d[1] \div 64
WireVersion(d) == (d[1] \div 8) % 8
WireMode(d) == d[1] % 8

\* the datagram of the iteration in progress decodes
WireDecodes(dg) == Len(dg.data) >= 48 /\ WireVersion(dg.data) \in 1..4

\* the datagram of the iteration in progress decodes and is a request
WireIsRequest(dg) ==
    /\ WireDecodes(dg)
    /\ \/ WireMode(dg.data) = 1
       \/ WireMode(dg.data) = 3
       \/ WireMode(dg.data) = 0 /\ WireVersion(dg.data) = 1 /\ dg.addr.port # 123

Received == dgram.tag = "Some"
Replied == Len(sent) > 0
SendFailed == \E i \in 1..Len(log) : log[i].line = "failed to send packet"

(***************************************************************************)
(* C1 as claimed: at the end of every iteration exactly one reply has      *)
(* been sent, to the source of the datagram, if the datagram decoded and   *)
(* is a request, and none in every other case.                             *)
(***************************************************************************)
C1_AsClaimed ==
    pc = "loop" =>
        IF Received /\ WireIsRequest(dgram.val)
        THEN Len(sent) = 1 /\ sent[1].to = dgram.val.addr
        ELSE sent = <<>>

(***************************************************************************)
(* C1 amended: for a datagram that decodes and is a request exactly one    *)
(* response is built and handed to send_to, addressed to the source of the *)
(* datagram; exactly one reply is on the wire if send_to succeeds and      *)
(* none if it fails.  In every other case no response is built and no      *)
(* reply is sent.  At no time has an iteration sent more than one reply.   *)
(***************************************************************************)
C1_OneSendPerRequest ==
    /\ Len(sent) <= 1
    /\ \A i \in 1..Len(sent) : Received /\ sent[i].to = dgram.val.addr
    /\ pc = "loop" =>
         IF Received /\ WireIsRequest(dgram.val)
         THEN /\ response.tag = "Some"
              /\ response.val.remote_addr = dgram.val.addr
              /\ IF SendFailed THEN sent = <<>> ELSE Len(sent) = 1
         ELSE response = None /\ sent = <<>> /\ ~SendFailed

C1_Witness ==
    /\ pc = "loop"
    /\ Len(sent) = 1
    /\ sent[1].to = [ip |-> 1, port |-> 4000]
    /\ WireMode(dgram.val.data) = 3

(***************************************************************************)
(* C2: for every decoded packet is_request is true exactly when mode is 1, *)
(* or mode is 3, or mode is 0 with version 1 from a source port other than *)
(* 123; the packet goes on to be answered exactly in those cases.          *)
(***************************************************************************)
C2_IsRequestTable ==
    /\ pc = "make_response" =>
         (is_request(request.val) <=>
            \/ WireMode(dgram.val.data) = 1
            \/ WireMode(dgram.val.data) = 3
            \/ /\ WireMode(dgram.val.data) = 0
               /\ WireVersion(dgram.val.data) = 1
               /\ dgram.val.addr.port # 123)
    /\ pc \in {"tx_ts", "send"} => WireIsRequest(dgram.val)
    /\ (pc = "loop" /\ request.tag = "Ok" /\ response = None)
         => ~WireIsRequest(dgram.val)

C2_Witness ==
    /\ pc = "loop"
    /\ request.tag = "Ok"
    /\ response = None
    /\ WireMode(dgram.val.data) = 0
    /\ WireVersion(dgram.val.data) = 1
    /\ dgram.val.addr.port = 123

(***************************************************************************)
(* C3: bytes 24..31 of every reply are bytes 40..47 of the request.        *)
(***************************************************************************)
C3_OrigIsRequestTx ==
    \A i \in 1..Len(sent) :
        WireBytes(sent[i].data, 24, 32) = WireBytes(dgram.val.data, 40, 48)

C3_Witness ==
    /\ Replied
    /\ WireBytes(sent[1].data, 24, 32) = <<203, 208, 213, 218, 223, 228, 233, 238>>

C3_WitnessZero ==
    /\ Replied
    /\ WireBytes(dgram.val.data, 40, 48) = <<0, 0, 0, 0, 0, 0, 0, 0>>

(***************************************************************************)
(* C4: the mode of every reply is 2 if the mode of the request is 1 and 4  *)
(* otherwise.                                                              *)
(***************************************************************************)
C4_ReplyMode ==
    \A i \in 1..Len(sent) :
        WireMode(sent[i].data) = (IF WireMode(dgram.val.data) = 1 THEN 2 ELSE 4)

C4_Witness ==
    /\ Replied
    /\ WireMode(dgram.val.data) = 1
    /\ WireMode(sent[1].data) = 2

(***************************************************************************)
(* C5: every reply has leap 0, stratum 8, precision 0 and zero delay,      *)
(* dispersion and ref_id, whatever the request holds in those fields.      *)
(***************************************************************************)
C5_FixedFields ==
    \A i \in 1..Len(sent) :
        /\ WireLeap(sent[i].data) = 0
        /\ sent[i].data[2] = 8
        /\ sent[i].data[4] = 0
        /\ WireBytes(sent[i].data, 4, 16) = <<0, 0, 0, 0, 0, 0, 0, 0, 0, 0, 0, 0>>

C5_Witness ==
    /\ Replied
    /\ WireLeap(dgram.val.data) = 3
    /\ dgram.val.data[2] # 8
    /\ dgram.val.data[4] # 0
    /\ \A k \in 5..16 : dgram.val.data[k] # 0

(***************************************************************************)
(* C6: bytes 32..39 of every reply are the timestamp of the wall clock     *)
(* reading taken when recv_from returned the request, whatever the clock   *)
(* reads when the response is built.                                       *)
(***************************************************************************)
C6_RxIsReceiptTime ==
    \A i \in 1..Len(sent) :
        WireBytes(sent[i].data, 32, 40)
            = u64_to_be_bytes(NtpTimestamp_now(dgram.val.at).ts)

C6_Witness ==
    /\ Replied
    /\ ref_now.val # NtpTimestamp_now(dgram.val.at)
    /\ response.val.tx_ts # NtpTimestamp_now(dgram.val.at)

(***************************************************************************)
(* C7: every reply has the version bits and the poll byte of the request.  *)
(***************************************************************************)
C7_VersionPollEchoed ==
    \A i \in 1..Len(sent) :
        /\ WireVersion(sent[i].data) = WireVersion(dgram.val.data)
        /\ sent[i].data[3] = dgram.val.data[3]

C7_Witness ==
    /\ Replied
    /\ dgram.val.data[3] = 255
    /\ WireVersion(sent[1].data) = 2

(***************************************************************************)
(* C8: a datagram shorter than 48 bytes makes receive fail with            *)
(* "Packet too short": no packet is decoded, no response is built and no   *)
(* reply is sent.                                                          *)
(***************************************************************************)
C8_TooShort ==
    (Received /\ Len(dgram.val.data) < 48) =>
        /\ request = Err(TooShort)
        /\ request.val.msg = "Packet too short"
        /\ pc = "loop"
        /\ response = None
        /\ sent = <<>>

C8_Witness ==
    /\ Received
    /\ Len(dgram.val.data) = 47
    /\ WireVersion(dgram.val.data) = 4
    /\ WireMode(dgram.val.data) = 3
    /\ request = Err(TooShort)

(***************************************************************************)
(* C9: a datagram of at least 48 bytes with version 0, 5, 6 or 7 makes     *)
(* receive fail with "Unsupported version" and gets no reply, whatever its *)
(* mode; one with version 1..4 decodes.                                    *)
(***************************************************************************)
C9_UnsupportedVersion ==
    (Received /\ Len(dgram.val.data) >= 48) =>
        IF WireVersion(dgram.val.data) \in {0, 5, 6, 7}
        THEN /\ request = Err(UnsupportedVersion)
             /\ request.val.msg = "Unsupported version"
             /\ pc = "loop"
             /\ response = None
             /\ sent = <<>>
        ELSE request.tag = "Ok"

C9_Witness ==
    /\ Received
    /\ Len(dgram.val.data) >= 48
    /\ WireVersion(dgram.val.data) = 5
    /\ WireMode(dgram.val.data) = 3
    /\ request = Err(UnsupportedVersion)

Pow5_9 == 5 ^ 9

\* floor(r * 2^23 / 5^9) for 0 <= r < 5^9, by long division in steps of
\* 10, 10 and 3 bits, every intermediate value below 2^31
ScaleDiv(r) ==
    LET a1 == r * 1024
        a2 == (a1 % Pow5_9) * 1024
        a3 == (a2 % Pow5_9) * 8
    IN  (a1 \div Pow5_9) * 8192 + (a2 \div Pow5_9) * 8 + a3 \div Pow5_9

\* floor(n * 2^32 / 10^9) = (n div 5^9) * 2^23 + floor((n mod 5^9) * 2^23 / 5^9),
\* as two 16-bit limbs
ExactFrac(n) ==
    LET f == ScaleDiv(n % Pow5_9)
    IN  <<(n \div Pow5_9) * 128 + f \div 65536, f % 65536>>

\* (s + 2208988800) mod 2^32, as two 16-bit limbs; 2208988800 = 33706 * 2^16 + 32384
NtpSeconds(s) ==
    LET lo == s[4] + 32384
    IN  <<(s[3] + 33706 + lo \div 65536) % 65536, lo % 65536>>

C18_NowValue ==
    pc = "now_done" =>
        /\ <<ref_now.val.ts[1], ref_now.val.ts[2]>> = NtpSeconds(clock.secs)
        /\ <<ref_now.val.ts[3], ref_now.val.ts[4]>> = ExactFrac(clock.nanos)

C18_Witness ==
    /\ pc = "now_done"
    /\ clock.nanos = 999999999
    /\ clock.secs = <<0, 1, 0, 5>>
    /\ ref_now.val.ts = <<33706, 32389, 65535, 65531>>

(***************************************************************************)
(* C12: every datagram the server sends is 48 bytes long, and the bytes of *)
(* a received datagram from offset 48 on change nothing: the decoded       *)
(* packet and the reply are those of its first 48 bytes alone.             *)
(***************************************************************************)
\* the result of receive for the first 48 bytes of the datagram in progress
ReceiveOfHeader ==
    receive(recv_from(SubSeq(dgram.val.data, 1, 48), dgram.val.addr), dgram.val.at)

C12_TrailerIgnored ==
    /\ (Received /\ Len(dgram.val.data) >= 48) => request = ReceiveOfHeader
    /\ \A i \in 1..Len(sent) :
         /\ Len(sent[i].data) = 48
         /\ sent[i].data = send(make_response(ReceiveOfHeader.val, ref_now.val,
                                              response.val.tx_ts).val)

C12_Witness ==
    /\ Replied
    /\ Len(dgram.val.data) > 48
    /\ \A k \in 49..Len(dgram.val.data) : dgram.val.data[k] # 0
    /\ Len(sent[1].data) = 48

(***************************************************************************)
(* C13: the packet decoded from a datagram, serialized by send, gives the  *)
(* first 48 bytes of the datagram back.                                    *)
(***************************************************************************)
C13_RoundTrip ==
    request.tag = "Ok" => send(request.val) = WireBytes(dgram.val.data, 0, 48)

C13_Witness ==
    /\ request.tag = "Ok"
    /\ WireLeap(dgram.val.data) = 3
    /\ WireMode(dgram.val.data) = 7
    /\ dgram.val.data[3] >= 128
    /\ dgram.val.data[4] >= 128
    /\ dgram.val.data[5] # dgram.val.data[8]
    /\ send(request.val) = WireBytes(dgram.val.data, 0, 48)

(***************************************************************************)
(* C19 as claimed: with a wall clock that is never set back, every         *)
(* response has rx_ts <= ref_ts <= tx_ts as raw 64-bit values.             *)
(***************************************************************************)
LeqU64(a, b) == a = b \/ LessU64(a, b)

TimestampsOrdered ==
    /\ LeqU64(response.val.rx_ts.ts, response.val.ref_ts.ts)
    /\ LeqU64(response.val.ref_ts.ts, response.val.tx_ts.ts)

C19_AsClaimed == response.tag = "Some" => TimestampsOrdered

(***************************************************************************)
(* C19 amended: with a wall clock that is never set back, every response   *)
(* whose clock readings fall in one NTP era (the seconds since 1900 pass   *)
(* no multiple of 2^32 between the receipt and the reading for tx_ts) has  *)
(* rx_ts <= ref_ts <= tx_ts, and so has the reply on the wire.             *)
(***************************************************************************)
\* the seconds since 1900 of a clock reading, divided by 2^32
Era(r) ==
    LET lo == r.secs[4] + 32384
        mid == r.secs[3] + 33706 + lo \div 65536
        hi == r.secs[2] + mid \div 65536
    IN  <<r.secs[1] + hi \div 65536, hi % 65536>>

\* the clock does not move between the reading for tx_ts and the end of
\* the iteration
C19_OrderedWithinEra ==
    /\ (response.tag = "Some" /\ Era(dgram.val.at) = Era(clock)) => TimestampsOrdered
    /\ \A i \in 1..Len(sent) :
         Era(dgram.val.at) = Era(clock) =>
           /\ LeqU64(u64_from_be_bytes(WireBytes(sent[i].data, 32, 40)),
                     u64_from_be_bytes(WireBytes(sent[i].data, 16, 24)))
           /\ LeqU64(u64_from_be_bytes(WireBytes(sent[i].data, 16, 24)),
                     u64_from_be_bytes(WireBytes(sent[i].data, 40, 48)))

C19_Witness ==
    /\ Replied
    /\ Era(dgram.val.at) = Era(clock)
    /\ LessU64(response.val.rx_ts.ts, response.val.tx_ts.ts)

(***************************************************************************)
(* C20: every reply, received by this server from any source, decodes and  *)
(* is not a request: it has a version in 1..4 and mode 2 or 4, and         *)
(* make_response gives None for it.                                        *)
(***************************************************************************)
C20_ReplyIsNoRequest ==
    \A i \in 1..Len(sent) :
        /\ WireVersion(sent[i].data) \in 1..4
        /\ WireMode(sent[i].data) \in {2, 4}
        /\ \A addr \in Addrs :
             LET r == receive(recv_from(sent[i].data, addr), clock)
             IN  /\ r.tag = "Ok"
                 /\ ~is_request(r.val)
                 /\ make_response(r.val, NtpTimestamp_now(clock), NtpTimestamp_now(clock)) = None

C20_Witness ==
    /\ Replied
    /\ WireMode(sent[1].data) = 2
    /\ WireVersion(sent[1].data) = 1
    /\ sent[1].to.port = 4000


(***************************************************************************)
(* main from its first line: the arguments and the environment are read,   *)
(* the version or the usage text is printed, or the socket is bound and    *)
(* the listener loop is run.                                               *)
(*   pc = "main"   at the first line of main                               *)
(*   pc = "exit"   main has returned                                       *)
(*   pc = "panic"  expect has panicked                                     *)
(*   pc = "run"    NtpServer::new has returned                             *)
(***************************************************************************)
MaxArgs == 2

\* values given to -b and --bind, and the value of KISS_NTPD_BIND
AddrA == <<"a", ":", "1">>
AddrB == <<"b", ":", "1">>

ArgTokens ==
    {Flag_V, Flag_v, Flag_version, Flag_h, Flag_help, Flag_b, Flag_bind,
     Flag_d, Flag_debug, AddrA}

\* env::args(): the program name and up to MaxArgs arguments
ArgLists ==
    UNION {{<<Program>> \o a : a \in [1..n -> ArgTokens]} : n \in 0..MaxArgs}

EnvBind == arg_to_env(Flag_bind).val
EnvDebug == arg_to_env(Flag_debug).val

Envs ==
    {[key \in {EnvBind, EnvDebug} |-> IF key = EnvBind THEN b ELSE d] :
        b \in {None, Some(AddrB)},
        d \in {None, Some(<<"0">>), Some(<<"t", "r", "u", "e">>)}}

\* the locals of the loop body before the first and between two iterations
Idle ==
    /\ dgram = None
    /\ request = None
    /\ ref_now = None
    /\ response = None
    /\ sent = <<>>
    /\ log = <<>>

MainInit ==
    /\ pc = "main"
    /\ raw_args \in ArgLists
    /\ env \in Envs
    /\ opts = None
    /\ socket = None
    /\ stdout = <<>>
    /\ clock = [secs |-> <<0, 0, 31829, 33151>>, nanos |-> 0]
    /\ Idle
    /\ inq = <<>>
    /\ earlier = <<>>

loop_locals == <<clock, dgram, request, ref_now, response, sent, log, inq, earlier>>

\* main.rs:317-320
MainVersion ==
    /\ pc = "main"
    /\ main_version(raw_args, env)
    /\ opts' = [version |-> TRUE]
    /\ stdout' = Append(stdout, "kiss-ntpd version")
    /\ pc' = "exit"
    /\ UNCHANGED <<raw_args, env, socket, loop_locals>>

\* main.rs:322-341
MainHelp ==
    /\ pc = "main"
    /\ ~main_version(raw_args, env)
    /\ main_help(raw_args, env)
    /\ opts' = [version |-> FALSE, bind |-> main_bind(raw_args, env), help |-> TRUE]
    /\ stdout' = Append(stdout, "usage")
    /\ pc' = "exit"
    /\ UNCHANGED <<raw_args, env, socket, loop_locals>>

\* to_socket_addrs of a String: host:port
is_socket_addr(addr) == \E i \in 2..(Len(addr) - 1) : addr[i] = ":"

\* what UdpSocket::bind(local_addr) can return
bind_results(addr) ==
    IF is_socket_addr(addr)
    THEN {Ok(addr), Err("AddrInUse"), Err("PermissionDenied")}
    ELSE {Err("InvalidInput")}

\* a bind error that is logged and ignored
after_bind_err_ignored == "run"

\* expect("could not bind to socket") on Err
after_bind_err == "panic"

\* main.rs:343 with NtpServer::new
MainNew ==
    /\ pc = "main"
    /\ ~main_version(raw_args, env)
    /\ ~main_help(raw_args, env)
    /\ opts' = main_options(raw_args, env)
    /\ \E r \in bind_results(main_bind(raw_args, env)) :
         /\ socket' = r
         /\ pc' = IF r.tag = "Ok" THEN "run" ELSE after_bind_err
    /\ UNCHANGED <<raw_args, env, stdout, loop_locals>>

\* main.rs:345 with the first line of process_requests
MainRun ==
    /\ pc = "run"
    /\ stdout' = Append(stdout, "Server thread started")
    /\ pc' = "recv"
    /\ UNCHANGED <<raw_args, env, opts, socket, loop_locals>>

\* one client request
ReceiveOne == ReceiveOf({Datagram(1, 4, 3, PacketLen)})

MainNext ==
    \/ MainVersion
    \/ MainHelp
    \/ MainNew
    \/ MainRun
    \/ ReceiveOne
    \/ ReadRefTs
    \/ MakeResponse
    \/ SendOk
    \/ Loop

MainSpec == MainInit /\ [][MainNext]_vars

Given(flags) == \E i \in 1..Len(raw_args) : raw_args[i] \in flags

(***************************************************************************)
(* C14: a bind failure at startup is fatal: once UdpSocket::bind has       *)
(* failed the process has panicked, the listener loop is not entered       *)
(* (its first line is not printed) and no datagram is received or          *)
(* answered; the loop runs on a bound socket only.                         *)
(***************************************************************************)
C14_BindFailureIsFatal ==
    /\ socket.tag = "Err" =>
         /\ pc = "panic"
         /\ Idle
         /\ stdout = <<>>
    /\ pc \in LoopPcs \/ ~Idle => socket.tag = "Ok"

C14_Witness ==
    /\ socket = Err("AddrInUse")
    /\ pc = "panic"
    /\ opts.bind = AddrA

(***************************************************************************)
(* C15 as claimed: when -b or --bind is on the command line, in any        *)
(* position, the bind address resolved is the same whatever the            *)
(* environment holds, and a boolean flag that is on the command line is    *)
(* resolved to true whatever the environment holds.                        *)
(***************************************************************************)
C15_AsClaimed ==
    /\ "bind" \in DOMAIN opts /\ Given({Flag_b, Flag_bind}) =>
         \A e \in Envs : opts.bind = main_bind(raw_args, e)
    /\ "debug" \in DOMAIN opts /\ Given({Flag_d, Flag_debug}) =>
         \A e \in Envs : opts.debug = main_debug(raw_args, e)

(***************************************************************************)
(* C16: whenever -V, -v, --version, -h or --help is given, main prints     *)
(* its text and returns: no socket is bound and the listener loop is not   *)
(* entered, whatever the other arguments and the bind address are.         *)
(***************************************************************************)
C16_HelpVersionBypass ==
    Given({Flag_V, Flag_v, Flag_version, Flag_h, Flag_help}) =>
        /\ socket = None
        /\ Idle
        /\ \/ pc = "main" /\ stdout = <<>>
           \/ pc = "exit" /\ stdout \in {<<"kiss-ntpd version">>, <<"usage">>}

C16_Witness ==
    /\ pc = "exit"
    /\ raw_args = <<Program, Flag_b, Flag_h>>
    /\ stdout = <<"usage">>


(***************************************************************************)
(* The listener loop on the queue of its socket: datagrams and errors      *)
(* arrive while the loop is anywhere in its body, recv_from returns them   *)
(* and earlier holds what every iteration that has ended did.  The clock  *)
(* reading differs from run to run and stands still within one.            *)
(***************************************************************************)
MaxDatagrams == 3

ClientAddr == [ip |-> 1, port |-> 4000]

\* the n-th arrival carries pattern n: its bytes tell it from the others
ArrivalDatagrams(n) ==
    {Datagram(n, 4, 3, PacketLen), Datagram(n, 4, 3, MaxLen),
     Datagram(n, 4, 4, PacketLen), Datagram(n, 4, 3, PacketLen - 1)}

\* the error that an ICMP message queues on the socket
QueuedErrors == {e \in OsErrors : e.kind = "ConnectionRefused"}

\* what the n-th recv_from can return
Arrivals(n) ==
    {Ok([data |-> d, addr |-> ClientAddr]) : d \in ArrivalDatagrams(n)}
        \cup {Err(e) : e \in QueuedErrors}

\* the number of datagrams and errors that have arrived
Arrived == Len(earlier) + (IF pc = "recv" THEN 0 ELSE 1) + Len(inq)

\* the kernel queues a datagram, or an error, on the socket
Arrive ==
    /\ Arrived < MaxDatagrams
    /\ \E x \in Arrivals(Arrived + 1) : inq' = Append(inq, x)
    /\ UNCHANGED <<pc, clock, dgram, request, ref_now, response, sent, log, startup, earlier>>

\* a socket that hands out the newest datagram first
socket_pop_lifo(q) == [head |-> q[Len(q)], rest |-> SubSeq(q, 1, Len(q) - 1)]

\* recv_from takes the oldest datagram of the queue
socket_pop(q) == [head |-> Head(q), rest |-> Tail(q)]

\* NtpPacket::receive(&socket) on the queue of the socket
ReceiveHead ==
    /\ inq # <<>>
    /\ inq' = socket_pop(inq).rest
    /\ IF socket_pop(inq).head.tag = "Ok"
       THEN ReceiveDatagram(socket_pop(inq).head.val.data, socket_pop(inq).head.val.addr)
       ELSE ReceiveFailed(socket_pop(inq).head.val)

\* what the iteration in progress did
Iteration ==
    [dgram |-> dgram, request |-> request, ref_now |-> ref_now,
     response |-> response, sent |-> sent, log |-> log]

\* the back edge, with the iteration added to the record
LoopRecord == LoopTo(Append(earlier, Iteration))

\* one reading before and one after the era rollover
SocketReadings == {r \in Readings : r.nanos = 0}

SocketInit ==
    /\ pc = "recv"
    /\ clock \in SocketReadings
    /\ Idle
    /\ Started
    /\ inq = <<>>
    /\ earlier = <<>>

SocketNext ==
    \/ Arrive
    \/ ReceiveHead
    \/ NotRequest
    \/ ReadRefTs
    \/ MakeResponse
    \/ SendOk
    \/ SendError
    \/ LoopRecord

SocketSpec == SocketInit /\ [][SocketNext]_vars


\* what the code makes of the datagram d from addr when every clock
\* reading taken while handling it is r
Outcome(d, addr, r) ==
    LET req == receive(recv_from(d, addr), r)
        resp == IF req.tag = "Ok"
                THEN make_response(req.val, NtpTimestamp_now(r), NtpTimestamp_now(r))
                ELSE None
    IN  [request |-> req,
         response |-> resp,
         reply |-> IF resp.tag = "Some"
                   THEN <<[to |-> addr, data |-> send(resp.val)]>>
                   ELSE <<>>]

\* the iteration it did what its own datagram and clock reading give
Follows(it) ==
    IF it.dgram.tag = "Some"
    THEN LET o == Outcome(it.dgram.val.data, it.dgram.val.addr, it.dgram.val.at)
         IN  /\ it.request = o.request
             /\ it.response = o.response
             /\ \/ it.sent = o.reply
                \/ /\ it.sent = <<>>
                   /\ \E k \in 1..Len(it.log) : it.log[k].line = "failed to send packet"
    ELSE /\ it.request.tag = "Err"
         /\ it.response = None
         /\ it.sent = <<>>

(***************************************************************************)
(* C11: the loop keeps nothing between datagrams: blocked in recv_from     *)
(* every local of the loop body is gone, and every iteration, whatever     *)
(* datagrams and errors the iterations before it have handled (longer      *)
(* datagrams included), ends with the request, the response and the reply  *)
(* that its own datagram, its source address and its clock reading give.   *)
(***************************************************************************)
C11_Stateless ==
    /\ pc = "recv" => Idle
    /\ pc = "loop" => Follows(Iteration)

C11_Witness ==
    /\ pc = "loop"
    /\ Replied
    /\ Len(dgram.val.data) = PacketLen
    /\ Len(earlier) = 2
    /\ earlier[1].dgram.tag = "Some"
    /\ Len(earlier[1].dgram.val.data) = MaxLen
    /\ earlier[2].dgram = None

\* the arrival number that the bytes of a datagram carry
SeqNo(d) == CHOOSE n \in 1..MaxDatagrams : d[2] = Fill(n, 1)

\* the arrival number that the origin timestamp of a reply carries
ReplyNo(d) ==
    CHOOSE n \in 1..MaxDatagrams : WireBytes(d, 24, 32) = [k \in 1..8 |-> Fill(n, 39 + k)]

\* iteration number i took arrival i and sent at most its reply
InTurn(it, i) ==
    /\ it.dgram.tag = "Some" => SeqNo(it.dgram.val.data) = i
    /\ Len(it.sent) <= 1
    /\ \A k \in 1..Len(it.sent) : ReplyNo(it.sent[k].data) = i

(***************************************************************************)
(* C17: datagrams are handled one at a time in arrival order: iteration i  *)
(* takes the i-th arrival and its reply, if any, leaves in iteration i;    *)
(* the datagrams that arrived meanwhile wait in the queue in their order,  *)
(* and the next one is taken when the body has ended and its locals are    *)
(* gone.                                                                   *)
(***************************************************************************)
C17_OneAtATimeInOrder ==
    /\ \A i \in 1..Len(earlier) : InTurn(earlier[i], i)
    /\ pc # "recv" => InTurn(Iteration, Len(earlier) + 1)
    /\ \A k \in 1..Len(inq) :
         inq[k].tag = "Ok" => SeqNo(inq[k].val.data) = Arrived - Len(inq) + k
    /\ pc = "recv" => Idle

C17_Witness ==
    /\ pc = "loop"
    /\ Replied
    /\ Len(earlier) = 1
    /\ Len(earlier[1].sent) = 1
    /\ Len(inq) = 1
    /\ inq[1].tag = "Ok"

====
